---- MODULE Spec2Model ----
(***************************************************************************)
(* Model of github.com/mdlayher/lldp: the TLV codec, the ChassisID and     *)
(* PortID identifier codecs, and the Frame (LLDPDU) codec.                 *)
(*                                                                         *)
(* Byte slices are sequences of 0..255 (a nil slice and an empty slice are *)
(* both <<>>).  A pointer field (to ChassisID, to PortID) is a sequence of *)
(* length 0 (nil) or 1 (the pointee).  An entry of Frame.Optional is the   *)
(* TLV it points to, or NilTLV for a nil pointer.  A time.Duration is an   *)
(* integer count of ticks, Second ticks to the second.  A run-time panic   *)
(* is the outcome ErrPanic: the call returns nothing.                      *)
(***************************************************************************)
EXTENDS Integers, Sequences, FiniteSets

VARIABLES f, t, buf, err, op, scanL, scanTT

vars == <<f, t, buf, err, op, scanL, scanTT>>

----------------------------------------------------------------------------
(* Program constants *)

TLVLengthMax == 511

TLVTypeEnd == 0

TLVTypeChassisID == 1

TLVTypePortID == 2

TLVTypeTTL == 3

TLVTypeMax == 127

MaxUint16 == 65535

(* Errors *)

ErrNil == "nil"

ErrInvalidFrame == "ErrInvalidFrame"

ErrInvalidTLV == "ErrInvalidTLV"

ErrUnexpectedEOF == "ErrUnexpectedEOF"

ErrPanic == "panic"

(* Model bounds *)

\* ticks of a time.Duration per second (time.Second is 10^9 ns in Go)
Second == 10

\* most optional TLVs in a caller-built Frame and in a received buffer
MaxOptional == 2

----------------------------------------------------------------------------
(* Go primitives *)

Zeros(n) ==
    [i \in 1..n |-> 0]

\* b[lo:hi] on a 0-indexed slice
Slice(b, lo, hi) ==
    SubSeq(b, lo + 1, hi)

\* b[lo:]
SliceFrom(b, lo) ==
    SubSeq(b, lo + 1, Len(b))

RECURSIVE BitAnd(_, _)
BitAnd(a, b) ==
    IF a = 0 \/ b = 0 THEN 0
    ELSE (a % 2) * (b % 2) + 2 * BitAnd(a \div 2, b \div 2)

RECURSIVE BitOr(_, _)
BitOr(a, b) ==
    IF a = 0 THEN b
    ELSE IF b = 0 THEN a
    ELSE (IF a % 2 = 1 \/ b % 2 = 1 THEN 1 ELSE 0) + 2 * BitOr(a \div 2, b \div 2)

\* a shift by 8 bits in place of 9
Shl9_By8(x) ==
    (x * 256) % 65536

\* uint16(x) << 9
Shl9(x) ==
    (x * 512) % 65536

\* conversion of a signed integer to uint16 keeps the low 16 bits
ToUint16(x) ==
    x % 65536

\* Go's integer division truncates toward zero
TruncDiv(a, b) ==
    IF a >= 0 THEN a \div b ELSE -((-a) \div b)

\* binary.BigEndian.Uint16(b[0:2])
BigEndianUint16(b) ==
    b[1] * 256 + b[2]

\* PutUint16 in little-endian order
BigEndianPutUint16_Little(v) ==
    <<v % 256, v \div 256>>

\* binary.BigEndian.PutUint16 into a fresh 2-byte slice
BigEndianPutUint16(v) ==
    <<v \div 256, v % 256>>

\* copy(b[n:n+len(src)], src); the slice expression panics past cap(b)
CopyAt(b, n, src) ==
    [i \in 1..Len(b) |-> IF i > n /\ i <= n + Len(src) THEN src[i - n] ELSE b[i]]

----------------------------------------------------------------------------
(* TLV *)

NewTLV ==
    [Type |-> 0, Length |-> 0, Value |-> <<>>]

\* a nil *TLV
NilTLV ==
    <<>>

\* TLVMarshalBinary without the upper limit on Length
TLVMarshalBinary_NoLengthLimit(tlv) ==
    IF tlv.Type > TLVTypeMax THEN [b |-> <<>>, err |-> ErrInvalidTLV]
    ELSE IF tlv.Length # Len(tlv.Value) THEN [b |-> <<>>, err |-> ErrInvalidTLV]
    ELSE LET tb == BitOr(BitOr(0, Shl9(tlv.Type)), tlv.Length)
         IN  [b |-> BigEndianPutUint16(tb) \o tlv.Value, err |-> ErrNil]

TLVMarshalBinary(tlv) ==
    IF tlv.Type > TLVTypeMax THEN [b |-> <<>>, err |-> ErrInvalidTLV]
    ELSE IF tlv.Length > TLVLengthMax THEN [b |-> <<>>, err |-> ErrInvalidTLV]
    ELSE IF tlv.Length # Len(tlv.Value) THEN [b |-> <<>>, err |-> ErrInvalidTLV]
    ELSE LET tb == BitOr(BitOr(0, Shl9(tlv.Type)), tlv.Length)
         IN  [b |-> BigEndianPutUint16(tb) \o tlv.Value, err |-> ErrNil]

\* TLVUnmarshalBinary masking the length with 0x00ff
TLVUnmarshalBinary_Mask8(tlv, b) ==
    IF Len(b) < 2 THEN [t |-> tlv, err |-> ErrUnexpectedEOF]
    ELSE LET ty == b[1] \div 2
             ln == BitAnd(BigEndianUint16(b), 255)
             t1 == [Type |-> ty, Length |-> ln, Value |-> tlv.Value]
         IN  IF Len(SliceFrom(b, 2)) < ln
             THEN [t |-> t1, err |-> ErrUnexpectedEOF]
             ELSE [t |-> [t1 EXCEPT !.Value = Slice(b, 2, 2 + ln)], err |-> ErrNil]

\* TLVUnmarshalBinary taking whatever bytes remain as the value
TLVUnmarshalBinary_NoValueCheck(tlv, b) ==
    IF Len(b) < 2 THEN [t |-> tlv, err |-> ErrUnexpectedEOF]
    ELSE LET ty == b[1] \div 2
             ln == BitAnd(BigEndianUint16(b), TLVLengthMax)
             t1 == [Type |-> ty, Length |-> ln, Value |-> tlv.Value]
         IN  [t |-> [t1 EXCEPT !.Value = SubSeq(b, 3, IF Len(b) < 2 + ln THEN Len(b) ELSE 2 + ln)],
              err |-> ErrNil]

TLVUnmarshalBinary(tlv, b) ==
    IF Len(b) < 2 THEN [t |-> tlv, err |-> ErrUnexpectedEOF]
    ELSE LET ty == b[1] \div 2
             ln == BitAnd(BigEndianUint16(b), TLVLengthMax)
             t1 == [Type |-> ty, Length |-> ln, Value |-> tlv.Value]
         IN  IF Len(SliceFrom(b, 2)) < ln
             THEN [t |-> t1, err |-> ErrUnexpectedEOF]
             ELSE [t |-> [t1 EXCEPT !.Value = Slice(b, 2, 2 + ln)], err |-> ErrNil]

----------------------------------------------------------------------------
(* ChassisID and PortID *)

NewChassisID ==
    [Subtype |-> 0, ID |-> <<>>]

NewPortID ==
    [Subtype |-> 0, ID |-> <<>>]

ChassisIDMarshalBinary(c) ==
    [b |-> <<c.Subtype>> \o c.ID, err |-> ErrNil]

\* ChassisIDUnmarshalBinary reporting an empty value as an invalid frame
ChassisIDUnmarshalBinary_WrongError(c, b) ==
    IF Len(b) < 1 THEN [c |-> c, err |-> ErrInvalidFrame]
    ELSE [c |-> [Subtype |-> b[1], ID |-> SliceFrom(b, 1)], err |-> ErrNil]

ChassisIDUnmarshalBinary(c, b) ==
    IF Len(b) < 1 THEN [c |-> c, err |-> ErrUnexpectedEOF]
    ELSE [c |-> [Subtype |-> b[1], ID |-> SliceFrom(b, 1)], err |-> ErrNil]

PortIDMarshalBinary(p) ==
    [b |-> <<p.Subtype>> \o p.ID, err |-> ErrNil]

\* PortIDUnmarshalBinary keeping the subtype byte in ID
PortIDUnmarshalBinary_KeepsSubtype(p, b) ==
    IF Len(b) < 1 THEN [p |-> p, err |-> ErrUnexpectedEOF]
    ELSE [p |-> [Subtype |-> b[1], ID |-> SliceFrom(b, 0)], err |-> ErrNil]

PortIDUnmarshalBinary(p, b) ==
    IF Len(b) < 1 THEN [p |-> p, err |-> ErrUnexpectedEOF]
    ELSE [p |-> [Subtype |-> b[1], ID |-> SliceFrom(b, 1)], err |-> ErrNil]

----------------------------------------------------------------------------
(* Frame *)

NewFrame ==
    [ChassisID |-> <<>>, PortID |-> <<>>, TTL |-> 0, Optional |-> <<>>]

\* the loop over f.Optional of Frame.length; t.Value of a nil t panics
RECURSIVE OptionalLength(_, _)
OptionalLength(opt, i) ==
    IF i > Len(opt) THEN [n |-> 0, err |-> ErrNil]
    ELSE IF opt[i] = NilTLV THEN [n |-> 0, err |-> ErrPanic]
    ELSE LET r == OptionalLength(opt, i + 1)
         IN  [n |-> 2 + Len(opt[i].Value) + r.n, err |-> r.err]

\* Frame.length without the two bytes of the end of LLDPDU TLV
length_NoEnd(fr) ==
    IF fr.ChassisID = <<>> \/ fr.PortID = <<>> THEN [n |-> 0, err |-> ErrPanic]
    ELSE LET o == OptionalLength(fr.Optional, 1)
         IN  IF o.err # ErrNil THEN [n |-> 0, err |-> o.err]
             ELSE [n |-> (2 + 1 + Len(fr.ChassisID[1].ID))
                         + (2 + 1 + Len(fr.PortID[1].ID))
                         + (2 + 2)
                         + o.n,
                   err |-> ErrNil]

\* Frame.length; it dereferences f.ChassisID, f.PortID and every entry of
\* f.Optional, and panics on a nil one
length(fr) ==
    IF fr.ChassisID = <<>> \/ fr.PortID = <<>> THEN [n |-> 0, err |-> ErrPanic]
    ELSE LET o == OptionalLength(fr.Optional, 1)
         IN  IF o.err # ErrNil THEN [n |-> 0, err |-> o.err]
             ELSE [n |-> (2 + 1 + Len(fr.ChassisID[1].ID))
                         + (2 + 1 + Len(fr.PortID[1].ID))
                         + (2 + 2)
                         + o.n
                         + 2,
                   err |-> ErrNil]

\* the loop over f.Optional of Frame.MarshalBinary
RECURSIVE MarshalOptional(_, _, _, _)
MarshalOptional(opt, i, b, n) ==
    IF i > Len(opt) THEN [b |-> b, n |-> n, err |-> ErrNil]
    ELSE IF opt[i] = NilTLV THEN [b |-> <<>>, n |-> n, err |-> ErrPanic]
    ELSE LET r == TLVMarshalBinary(opt[i])
         IN  IF r.err # ErrNil THEN [b |-> <<>>, n |-> n, err |-> r.err]
             ELSE IF n + Len(r.b) > Len(b) THEN [b |-> <<>>, n |-> n, err |-> ErrPanic]
             ELSE MarshalOptional(opt, i + 1, CopyAt(b, n, r.b), n + Len(r.b))

FrameMarshalBinary(fr) ==
    IF fr.ChassisID = <<>> THEN [b |-> <<>>, n |-> 0, err |-> ErrInvalidFrame]
    ELSE IF fr.PortID = <<>> THEN [b |-> <<>>, n |-> 0, err |-> ErrInvalidFrame]
    ELSE LET tTTL == TruncDiv(fr.TTL, Second)
         IN
         IF tTTL > MaxUint16 THEN [b |-> <<>>, n |-> 0, err |-> ErrInvalidFrame]
         ELSE
         LET ttl == ToUint16(tTTL)
             ln  == length(fr)
             b0  == Zeros(ln.n)
             cb  == ChassisIDMarshalBinary(fr.ChassisID[1])
             cbb == TLVMarshalBinary([Type |-> TLVTypeChassisID,
                                      Length |-> ToUint16(Len(cb.b)),
                                      Value |-> cb.b])
             n1  == Len(cbb.b)
             b1  == CopyAt(b0, 0, cbb.b)
             pb  == PortIDMarshalBinary(fr.PortID[1])
             pbb == TLVMarshalBinary([Type |-> TLVTypePortID,
                                      Length |-> ToUint16(Len(pb.b)),
                                      Value |-> pb.b])
             b2  == CopyAt(b1, n1, pbb.b)
             n2  == n1 + Len(pbb.b)
             tbb == TLVMarshalBinary([Type |-> TLVTypeTTL,
                                      Length |-> 2,
                                      Value |-> BigEndianPutUint16(ttl)])
             b3  == CopyAt(b2, n2, tbb.b)
             n3  == n2 + Len(tbb.b)
         IN
         IF ln.err # ErrNil THEN [b |-> <<>>, n |-> 0, err |-> ln.err]
         ELSE IF cb.err # ErrNil THEN [b |-> <<>>, n |-> 0, err |-> cb.err]
         ELSE IF cbb.err # ErrNil THEN [b |-> <<>>, n |-> 0, err |-> cbb.err]
         ELSE IF n1 > Len(b0) THEN [b |-> <<>>, n |-> n1, err |-> ErrPanic]
         ELSE IF pb.err # ErrNil THEN [b |-> <<>>, n |-> n1, err |-> pb.err]
         ELSE IF pbb.err # ErrNil THEN [b |-> <<>>, n |-> n1, err |-> pbb.err]
         ELSE IF n1 + Len(pbb.b) > Len(b0) THEN [b |-> <<>>, n |-> n1, err |-> ErrPanic]
         ELSE IF tbb.err # ErrNil THEN [b |-> <<>>, n |-> n2, err |-> tbb.err]
         ELSE IF n2 + Len(tbb.b) > Len(b0) THEN [b |-> <<>>, n |-> n2, err |-> ErrPanic]
         ELSE MarshalOptional(fr.Optional, 1, b3, n3)

\* the scanning loop of Frame.UnmarshalBinary
RECURSIVE ScanTLVs(_, _, _)
ScanTLVs(b, l, tt) ==
    IF Len(SliceFrom(b, l)) > 0
    THEN LET r == TLVUnmarshalBinary(NewTLV, SliceFrom(b, l))
         IN  IF r.err # ErrNil THEN [tt |-> tt, l |-> l, err |-> r.err]
             ELSE ScanTLVs(b, l + 2 + r.t.Length, Append(tt, r.t))
    ELSE [tt |-> tt, l |-> l, err |-> ErrNil]

FrameUnmarshalBinary(fr, b) ==
    LET s  == ScanTLVs(b, 0, <<>>)
        tt == s.tt
    IN
    IF s.err # ErrNil THEN [f |-> fr, err |-> s.err]
    ELSE IF Len(tt) < 4 THEN [f |-> fr, err |-> ErrUnexpectedEOF]
    ELSE IF tt[1].Type # TLVTypeChassisID THEN [f |-> fr, err |-> ErrInvalidFrame]
    ELSE
    LET c  == ChassisIDUnmarshalBinary(NewChassisID, tt[1].Value)
        f1 == [fr EXCEPT !.ChassisID = <<c.c>>]
    IN
    IF c.err # ErrNil THEN [f |-> f1, err |-> c.err]
    ELSE IF tt[2].Type # TLVTypePortID THEN [f |-> f1, err |-> ErrInvalidFrame]
    ELSE
    LET p  == PortIDUnmarshalBinary(NewPortID, tt[2].Value)
        f2 == [f1 EXCEPT !.PortID = <<p.p>>]
    IN
    IF p.err # ErrNil THEN [f |-> f2, err |-> p.err]
    ELSE IF tt[3].Type # TLVTypeTTL \/ tt[3].Length # 2
         THEN [f |-> f2, err |-> ErrInvalidFrame]
    ELSE
    LET f3 == [f2 EXCEPT !.TTL = BigEndianUint16(tt[3].Value) * Second]
    IN
    IF tt[Len(tt)].Type # TLVTypeEnd \/ tt[Len(tt)].Length # 0
    THEN [f |-> f3, err |-> ErrInvalidFrame]
    ELSE [f |-> [f3 EXCEPT !.Optional = SubSeq(tt, 4, Len(tt) - 1)], err |-> ErrNil]

----------------------------------------------------------------------------
(* Inputs: Frames and TLVs a caller builds, buffers a caller receives *)

\* the lists of at most n entries of S made of a first entry and copies of a
\* second one: every list of at most 2 entries, and some of each greater length
ListsUpTo(S, n) ==
    {<<>>} \cup { [i \in 1..k |-> IF i = 1 THEN a ELSE b] : a \in S, b \in S, k \in 1..n }

InChassisIDs ==
    { <<>>,
      <<[Subtype |-> 1, ID |-> <<102, 111, 111>>]>>,
      <<[Subtype |-> 255, ID |-> [i \in 1..(TLVLengthMax - 1) |-> 255]]>>,
      <<[Subtype |-> 4, ID |-> [i \in 1..TLVLengthMax |-> 255]]>> }

InPortIDs ==
    { <<>>,
      <<[Subtype |-> 1, ID |-> <<98, 97, 114>>]>>,
      <<[Subtype |-> 7, ID |-> [i \in 1..TLVLengthMax |-> 255]]>> }

InTTLs ==
    { 0, 255 * Second, MaxUint16 * Second, MaxUint16 * Second + (Second - 1),
      (MaxUint16 + 1) * Second, -1, -Second }

InOptionalTLVs ==
    { NilTLV,
      [Type |-> 0, Length |-> 0, Value |-> <<>>],
      [Type |-> 127, Length |-> 2, Value |-> <<1, 2>>],
      [Type |-> 128, Length |-> 0, Value |-> <<>>],
      [Type |-> 5, Length |-> 2, Value |-> <<1>>],
      [Type |-> 8, Length |-> TLVLengthMax + 1, Value |-> Zeros(TLVLengthMax + 1)] }

\* every combination of identifiers and TTL with at most one optional TLV, and
\* the longer lists of optional TLVs with identifiers and a TTL that encode
InFrames ==
    { [ChassisID |-> c, PortID |-> p, TTL |-> d, Optional |-> o] :
        c \in InChassisIDs, p \in InPortIDs, d \in InTTLs,
        o \in {<<>>} \cup {<<x>> : x \in InOptionalTLVs} }
    \cup
    { [ChassisID |-> c, PortID |-> p, TTL |-> d, Optional |-> o] :
        c \in {x \in InChassisIDs : x # <<>> /\ Len(x[1].ID) < TLVLengthMax},
        p \in {x \in InPortIDs : x # <<>> /\ Len(x[1].ID) < TLVLengthMax},
        d \in {255 * Second, MaxUint16 * Second},
        o \in ListsUpTo(InOptionalTLVs, MaxOptional) }

InTLVs ==
    { [Type |-> ty, Length |-> ln, Value |-> v] :
        ty \in {0, 1, 127, 128, 255},
        ln \in {0, 1, 2, TLVLengthMax, TLVLengthMax + 1, MaxUint16},
        v \in {<<>>, <<9>>, <<1, 2>>, Zeros(TLVLengthMax), Zeros(TLVLengthMax + 1)} }

\* buffers holding one TLV header followed by some bytes
InTLVBuffers ==
    { <<>>, <<0>>, <<255>> } \cup
    { <<hi, lo>> \o [i \in 1..n |-> 255] :
        hi \in {0, 1, 2, 3, 254, 255}, lo \in {0, 1, 2, 255},
        n \in {0, 1, 2, 3, TLVLengthMax - 1, TLVLengthMax, TLVLengthMax + 1} }

\* what can stand at each position of a received frame (<<>>: nothing)
InUnit0 ==
    { <<>>, <<2, 5, 6, 101, 116, 104, 48>>, <<2, 0>>, <<4, 1, 0>> }

InUnit1 ==
    { <<>>, <<4, 5, 4, 101, 116, 104, 49>>, <<4, 0>>, <<2, 1, 0>> }

InUnit2 ==
    { <<>>, <<6, 2, 0, 255>>, <<6, 2, 255, 255>>, <<6, 1, 0>>, <<0, 0>> }

InMiddle ==
    { <<8, 1, 1>>, <<10, 2, 1, 2>>, <<0, 0>> }

InLast ==
    { <<>>, <<0, 0>>, <<0, 1, 0>>, <<6, 2>> }

RECURSIVE Concat(_)
Concat(ss) ==
    IF ss = <<>> THEN <<>> ELSE Head(ss) \o Concat(Tail(ss))

\* buffers a caller hands to ChassisID.UnmarshalBinary
InChassisIDBuffers ==
    { <<>>, <<1, 102, 111, 111>> }

\* buffers a caller hands to PortID.UnmarshalBinary
InPortIDBuffers ==
    { <<>>, <<1, 98, 97, 114>> }

InFrameBuffers ==
    { u0 \o u1 \o u2 \o Concat(m) \o ul :
        u0 \in InUnit0, u1 \in InUnit1, u2 \in InUnit2,
        m \in ListsUpTo(InMiddle, MaxOptional), ul \in InLast }

----------------------------------------------------------------------------
(* The caller's view: a Frame f and a TLV t it owns, a byte buffer buf it   *)
(* holds (received, or returned by the last marshal), and the error and    *)
(* name of the last call; a call that panics returns nothing, leaves buf as *)
(* it was and ends the program: no call follows it.  scanL and scanTT are the offset l and the TLVs  *)
(* tt of the scanning loop of Frame.UnmarshalBinary, followed step by step *)
(* in SpecScan only.                                                       *)

Init ==
    /\ err = ErrNil
    /\ op = "init"
    /\ scanL = 0
    /\ scanTT = <<>>
    /\ \/ f \in InFrames /\ t = NewTLV /\ buf = <<>>
       \/ f = NewFrame /\ t \in InTLVs /\ buf = <<>>
       \/ f = NewFrame /\ t = NewTLV /\ buf \in InTLVBuffers \cup InFrameBuffers

\* b, err := f.MarshalBinary()
DoFrameMarshalBinary ==
    LET r == FrameMarshalBinary(f)
    IN  /\ err # ErrPanic
        /\ buf' = IF r.err = ErrPanic THEN buf ELSE r.b
        /\ err' = r.err
        /\ op' = "FrameMarshalBinary"
        /\ UNCHANGED <<f, t, scanL, scanTT>>

\* err := f.UnmarshalBinary(b)
DoFrameUnmarshalBinary ==
    LET r == FrameUnmarshalBinary(f, buf)
    IN  /\ err # ErrPanic
        /\ f' = r.f
        /\ err' = r.err
        /\ op' = "FrameUnmarshalBinary"
        /\ UNCHANGED <<t, buf, scanL, scanTT>>

\* b, err := t.MarshalBinary()
DoTLVMarshalBinary ==
    LET r == TLVMarshalBinary(t)
    IN  /\ err # ErrPanic
        /\ buf' = r.b
        /\ err' = r.err
        /\ op' = "TLVMarshalBinary"
        /\ UNCHANGED <<f, t, scanL, scanTT>>

\* err := t.UnmarshalBinary(b)
DoTLVUnmarshalBinary ==
    LET r == TLVUnmarshalBinary(t, buf)
    IN  /\ err # ErrPanic
        /\ t' = r.t
        /\ err' = r.err
        /\ op' = "TLVUnmarshalBinary"
        /\ UNCHANGED <<f, buf, scanL, scanTT>>

\* b, err := f.ChassisID.MarshalBinary(); len(c.ID) of a nil c panics
DoChassisIDMarshalBinary ==
    /\ err # ErrPanic
    /\ IF f.ChassisID = <<>>
       THEN err' = ErrPanic /\ buf' = buf
       ELSE LET r == ChassisIDMarshalBinary(f.ChassisID[1])
            IN  err' = r.err /\ buf' = r.b
    /\ op' = "ChassisIDMarshalBinary"
    /\ UNCHANGED <<f, t, scanL, scanTT>>

\* err := f.ChassisID.UnmarshalBinary(b); a nil c returns on an empty b before
\* any field is written, and panics on c.Subtype = ... otherwise
DoChassisIDUnmarshalBinary ==
    \E b \in InChassisIDBuffers :
        /\ err # ErrPanic
        /\ IF f.ChassisID = <<>>
           THEN /\ err' = IF Len(b) < 1 THEN ErrUnexpectedEOF ELSE ErrPanic
                /\ f' = f
           ELSE LET r == ChassisIDUnmarshalBinary(f.ChassisID[1], b)
                IN  /\ err' = r.err
                    /\ f' = [f EXCEPT !.ChassisID = <<r.c>>]
        /\ buf' = b
        /\ op' = "ChassisIDUnmarshalBinary"
        /\ UNCHANGED <<t, scanL, scanTT>>

\* b, err := f.PortID.MarshalBinary(); len(p.ID) of a nil p panics
DoPortIDMarshalBinary ==
    /\ err # ErrPanic
    /\ IF f.PortID = <<>>
       THEN err' = ErrPanic /\ buf' = buf
       ELSE LET r == PortIDMarshalBinary(f.PortID[1])
            IN  err' = r.err /\ buf' = r.b
    /\ op' = "PortIDMarshalBinary"
    /\ UNCHANGED <<f, t, scanL, scanTT>>

\* err := f.PortID.UnmarshalBinary(b); a nil p returns on an empty b before
\* any field is written, and panics on p.Subtype = ... otherwise
DoPortIDUnmarshalBinary ==
    \E b \in InPortIDBuffers :
        /\ err # ErrPanic
        /\ IF f.PortID = <<>>
           THEN /\ err' = IF Len(b) < 1 THEN ErrUnexpectedEOF ELSE ErrPanic
                /\ f' = f
           ELSE LET r == PortIDUnmarshalBinary(f.PortID[1], b)
                IN  /\ err' = r.err
                    /\ f' = [f EXCEPT !.PortID = <<r.p>>]
        /\ buf' = b
        /\ op' = "PortIDUnmarshalBinary"
        /\ UNCHANGED <<t, scanL, scanTT>>

Next ==
    \/ DoFrameMarshalBinary
    \/ DoFrameUnmarshalBinary
    \/ DoTLVMarshalBinary
    \/ DoTLVUnmarshalBinary
    \/ DoChassisIDMarshalBinary
    \/ DoChassisIDUnmarshalBinary
    \/ DoPortIDMarshalBinary
    \/ DoPortIDUnmarshalBinary

Spec ==
    Init /\ [][Next]_vars

----------------------------------------------------------------------------
(* The scanning loop of Frame.UnmarshalBinary, one iteration per step:      *)
(*   for l := 0; len(b[l:]) > 0; { t := new(TLV); ...; l += 2 + Length }   *)

\* the loop looks at lengths only, never at kinds: the buffers vary the value
\* lengths and the number of units, complete or cut short
InScanBuffers ==
    InTLVBuffers \cup {Zeros(16), Zeros(17)} \cup
    { u0 \o <<4, 5, 4, 101, 116, 104, 49>> \o u2 \o Concat(m) \o ul :
        u0 \in InUnit0, u2 \in {<<6, 2, 0, 255>>, <<6, 1, 0>>},
        m \in ListsUpTo(InMiddle, MaxOptional), ul \in InLast }

InitScan ==
    /\ buf \in InScanBuffers
    /\ scanL = 0
    /\ scanTT = <<>>
    /\ f = NewFrame
    /\ t = NewTLV
    /\ err = ErrNil
    /\ op = "scan"

\* an iteration that advances by the length alone, without the 2 header bytes
ScanStep_NoHeader ==
    /\ op = "scan"
    /\ scanL <= Len(buf)
    /\ Len(SliceFrom(buf, scanL)) > 0
    /\ LET r == TLVUnmarshalBinary(NewTLV, SliceFrom(buf, scanL))
       IN  /\ t' = r.t
           /\ err' = r.err
           /\ IF r.err # ErrNil
              THEN op' = "scanError" /\ UNCHANGED <<scanL, scanTT>>
              ELSE op' = "scan" /\ scanL' = scanL + r.t.Length /\ scanTT' = Append(scanTT, r.t)
    /\ UNCHANGED <<f, buf>>

\* one iteration: the loop condition holds, a TLV is unmarshaled from b[l:]
ScanStep ==
    /\ op = "scan"
    /\ scanL <= Len(buf)
    /\ Len(SliceFrom(buf, scanL)) > 0
    /\ LET r == TLVUnmarshalBinary(NewTLV, SliceFrom(buf, scanL))
       IN  /\ t' = r.t
           /\ err' = r.err
           /\ IF r.err # ErrNil
              THEN op' = "scanError" /\ UNCHANGED <<scanL, scanTT>>
              ELSE op' = "scan" /\ scanL' = scanL + 2 + r.t.Length /\ scanTT' = Append(scanTT, r.t)
    /\ UNCHANGED <<f, buf>>

\* the loop condition is evaluated and fails (b[l:] panics when l > len(b))
ScanExit ==
    /\ op = "scan"
    /\ IF scanL > Len(buf)
       THEN op' = "panic" /\ err' = ErrPanic
       ELSE Len(SliceFrom(buf, scanL)) = 0 /\ op' = "scanned" /\ err' = err
    /\ UNCHANGED <<f, t, buf, scanL, scanTT>>

NextScan ==
    \/ ScanStep
    \/ ScanExit

\* the loop is sequential code: an iteration that can run does run
SpecScan ==
    InitScan /\ [][NextScan]_vars /\ WF_vars(NextScan)

----------------------------------------------------------------------------
(* The wire format as the specification states it, by plain arithmetic *)

\* a TLV unit on the wire: 16-bit big-endian word kind*512 + length, then the value
WireTLV(kind, value) ==
    <<(kind * 512 + Len(value)) \div 256, (kind * 512 + Len(value)) % 256>> \o value

RECURSIVE WireOptional(_)
WireOptional(opt) ==
    IF opt = <<>> THEN <<>>
    ELSE WireTLV(Head(opt).Type, Head(opt).Value) \o WireOptional(Tail(opt))

RECURSIVE WireOptionalSize(_)
WireOptionalSize(opt) ==
    IF opt = <<>> THEN 0
    ELSE 2 + Len(Head(opt).Value) + WireOptionalSize(Tail(opt))

\* the units a buffer scans into; ok is FALSE when some unit is cut short, and
\* units are then the ones before it
RECURSIVE WireUnits(_)
WireUnits(b) ==
    IF b = <<>> THEN [ok |-> TRUE, units |-> <<>>]
    ELSE IF Len(b) < 2 THEN [ok |-> FALSE, units |-> <<>>]
    ELSE LET w == b[1] * 256 + b[2]
             n == w % 512
         IN  IF Len(b) - 2 < n THEN [ok |-> FALSE, units |-> <<>>]
             ELSE LET rest == WireUnits(SubSeq(b, 3 + n, Len(b)))
                  IN  [ok |-> rest.ok,
                       units |-> <<[kind |-> w \div 512, length |-> n,
                                    value |-> SubSeq(b, 3, 2 + n)]>> \o rest.units]

ValidTLV(x) ==
    x # NilTLV /\ x.Type <= 127 /\ x.Length <= 511 /\ x.Length = Len(x.Value)

\* the frame's TTL in whole seconds, by truncating division
WholeSeconds(fr) ==
    IF fr.TTL >= 0 THEN fr.TTL \div Second ELSE -((-fr.TTL) \div Second)

----------------------------------------------------------------------------
(* Claims *)

\* C9: TLV encode fails with InvalidTLV exactly when kind > 127, or length > 511,
\* or length # len(value); otherwise it succeeds and returns exactly 2 + length
\* bytes: the big-endian word kind*512 + length (kind in the top 7 bits, length
\* in the low 9 bits) followed by value unchanged.
C9_TLVEncode ==
    op = "TLVMarshalBinary" =>
        IF t.Type > 127 \/ t.Length > 511 \/ t.Length # Len(t.Value)
        THEN err = ErrInvalidTLV
        ELSE /\ err = ErrNil
             /\ Len(buf) = 2 + t.Length
             /\ buf[1] * 256 + buf[2] = t.Type * 512 + t.Length
             /\ buf[1] \div 2 = t.Type
             /\ (buf[1] % 2) * 256 + buf[2] = t.Length
             /\ SubSeq(buf, 3, Len(buf)) = t.Value

C9_Witness ==
    /\ op = "TLVMarshalBinary"
    /\ err = ErrNil
    /\ t.Type = 127
    /\ t.Length = 511
    /\ Len(buf) = 513

\* C10: TLV decode fails, with InsufficientData, exactly when the input has fewer
\* than 2 bytes or fewer than length bytes follow the header; on success kind is
\* word >> 9, length is word & 0x01FF, value is the next length bytes, trailing
\* bytes are ignored, and kind <= 127, length <= 511, length = len(value).
C10_TLVDecode ==
    op = "TLVUnmarshalBinary" =>
        IF Len(buf) < 2 \/ Len(buf) - 2 < (buf[1] * 256 + buf[2]) % 512
        THEN err = ErrUnexpectedEOF
        ELSE LET word == buf[1] * 256 + buf[2]
             IN  /\ err = ErrNil
                 /\ t.Type = word \div 512
                 /\ t.Length = word % 512
                 /\ t.Value = SubSeq(buf, 3, 2 + (word % 512))
                 /\ t.Type <= 127
                 /\ t.Length <= 511
                 /\ t.Length = Len(t.Value)

C10_Witness ==
    /\ op = "TLVUnmarshalBinary"
    /\ err = ErrNil
    /\ t.Type = 127
    /\ t.Length = 511
    /\ Len(buf) > 2 + t.Length

\* C1: Frame round trip: for every Frame with chassis and port identifiers present
\* (each id at most 510 bytes), a whole-second TTL of 0..65535 seconds and only
\* well-formed optional TLVs, encode succeeds, and decoding the produced bytes
\* succeeds and yields an equal Frame.
C1_FrameRoundTrip ==
    ( /\ op = "FrameMarshalBinary"
      /\ f.ChassisID # <<>>
      /\ f.PortID # <<>>
      /\ Len(f.ChassisID[1].ID) <= 510
      /\ Len(f.PortID[1].ID) <= 510
      /\ f.TTL % Second = 0
      /\ f.TTL \div Second \in 0..65535
      /\ \A i \in 1..Len(f.Optional) : ValidTLV(f.Optional[i]) )
    => /\ err = ErrNil
       /\ LET r == FrameUnmarshalBinary(NewFrame, buf)
          IN  /\ r.err = ErrNil
              /\ r.f.ChassisID = f.ChassisID
              /\ r.f.PortID = f.PortID
              /\ r.f.TTL = f.TTL
              /\ r.f.Optional = f.Optional

C1_Witness ==
    /\ op = "FrameMarshalBinary"
    /\ err = ErrNil
    /\ f.ChassisID # <<>>
    /\ f.PortID # <<>>
    /\ Len(f.ChassisID[1].ID) = 510
    /\ f.PortID[1].Subtype = 1
    /\ f.TTL = 65535 * Second
    /\ Len(f.Optional) = 2
    /\ f.Optional[1].Type = 127
    /\ f.Optional[2].Type = 0
    /\ FrameUnmarshalBinary(NewFrame, buf).f = f

\* C2: re-encoding is the identity on accepted input: whenever Frame decode of a
\* buffer succeeds, Frame encode of the decoded Frame succeeds and produces
\* exactly the bytes of that buffer, optional TLVs included.
C2_ReencodeIdentity ==
    (op = "FrameUnmarshalBinary" /\ err = ErrNil)
    => LET r == FrameMarshalBinary(f)
       IN  r.err = ErrNil /\ r.b = buf

C2_Witness ==
    /\ op = "FrameUnmarshalBinary"
    /\ err = ErrNil
    /\ buf = <<2, 5, 6, 101, 116, 104, 48, 4, 5, 4, 101, 116, 104, 49,
               6, 2, 0, 255, 8, 1, 1, 10, 2, 1, 2, 0, 0>>
    /\ Len(f.Optional) = 2
    /\ FrameMarshalBinary(f).b = buf

\* C3: whenever Frame encode succeeds, its output is the concatenation of
\* TLV(1, subtype ++ chassis id), TLV(2, subtype ++ port id), TLV(3, the two
\* big-endian bytes of the TTL in seconds), each optional TLV in order, and the
\* terminator 00 00; its length is the pre-computed frame length, the write
\* offset after the last optional TLV is 2 bytes before the end, and the last
\* two bytes are the terminator.
C3_EncodeLayout ==
    (op = "FrameMarshalBinary" /\ err = ErrNil)
    => LET c == f.ChassisID[1]
           p == f.PortID[1]
           s == WholeSeconds(f)
       IN  /\ buf = WireTLV(1, <<c.Subtype>> \o c.ID)
                    \o WireTLV(2, <<p.Subtype>> \o p.ID)
                    \o WireTLV(3, <<(s \div 256) % 256, s % 256>>)
                    \o WireOptional(f.Optional)
                    \o <<0, 0>>
           /\ Len(buf) = (3 + Len(c.ID)) + (3 + Len(p.ID)) + 4
                         + WireOptionalSize(f.Optional) + 2
           /\ FrameMarshalBinary(f).n = Len(buf) - 2
           /\ SubSeq(buf, Len(buf) - 1, Len(buf)) = <<0, 0>>

C3_Witness ==
    /\ op = "FrameMarshalBinary"
    /\ err = ErrNil
    /\ Len(f.Optional) = 2
    /\ f.Optional[1].Type = 127
    /\ f.Optional[2].Type = 127
    /\ f.TTL = 255 * Second
    /\ Len(buf) = 3 + Len(f.ChassisID[1].ID) + 3 + Len(f.PortID[1].ID) + 4 + 8 + 2

\* C4: after every successful Frame decode the optional list contains no TLV of
\* the terminator kind (kind 0).
C4_NoTerminatorInOptional ==
    (op = "FrameUnmarshalBinary" /\ err = ErrNil)
    => \A i \in 1..Len(f.Optional) : f.Optional[i].Type # 0

\* a buffer scanning into at least 4 units with a wrong unit at a mandatory position
PositionalViolation ==
    LET u == WireUnits(buf)
        n == Len(u.units)
    IN  /\ u.ok
        /\ n >= 4
        /\ \/ u.units[1].kind # 1
           \/ u.units[2].kind # 2
           \/ ~(u.units[3].kind = 3 /\ u.units[3].length = 2)
           \/ ~(u.units[n].kind = 0 /\ u.units[n].length = 0)

\* a chassis-id unit at position 0 with an empty value, or chassis-id and port-id
\* units at positions 0 and 1 the second with an empty value
EmptyIdentifierFirst ==
    LET u == WireUnits(buf).units
    IN  \/ u[1].kind = 1 /\ u[1].length = 0
        \/ u[1].kind = 1 /\ u[2].kind = 2 /\ u[2].length = 0

\* C5 as stated: for every buffer scanning into at least 4 units, a wrong kind
\* at position 0, 1 or 2 (or a TTL length other than 2), or a last unit other
\* than (terminator, 0), makes Frame decode fail with InvalidFrame.
C5_PositionalInvalidFrame ==
    (op = "FrameUnmarshalBinary" /\ PositionalViolation) => err = ErrInvalidFrame

\* C5 amended: such a buffer makes Frame decode fail: with InsufficientData when
\* a chassis-id unit of empty value stands at position 0, or chassis-id and
\* port-id units stand at positions 0 and 1 and the port-id unit has an empty
\* value; with InvalidFrame in every other case.
C5_PositionalFailure ==
    (op = "FrameUnmarshalBinary" /\ PositionalViolation)
    => err = IF EmptyIdentifierFirst THEN ErrUnexpectedEOF ELSE ErrInvalidFrame

\* all four mandatory kinds present, chassis-id and port-id swapped
C5_Witness ==
    /\ op = "FrameUnmarshalBinary"
    /\ PositionalViolation
    /\ LET u == WireUnits(buf).units
       IN  /\ Len(u) = 4
           /\ u[1].kind = 2 /\ u[2].kind = 1 /\ u[3].kind = 3 /\ u[3].length = 2
           /\ u[4].kind = 0 /\ u[4].length = 0
    /\ err = ErrInvalidFrame

\* C6: Frame decode fails with InsufficientData for every buffer that cannot be
\* completely scanned into TLV units or that scans into fewer than 4 units, the
\* empty buffer included, whatever the kinds of the units.
C6_InsufficientData ==
    ( /\ op = "FrameUnmarshalBinary"
      /\ (~WireUnits(buf).ok \/ Len(WireUnits(buf).units) < 4) )
    => err = ErrUnexpectedEOF

\* chassis-id, port-id and TTL units in place, then a unit cut short
C6_Witness ==
    /\ op = "FrameUnmarshalBinary"
    /\ err = ErrUnexpectedEOF
    /\ LET u == WireUnits(buf)
       IN  /\ ~u.ok
           /\ Len(u.units) >= 3
           /\ u.units[1].kind = 1 /\ u.units[1].length > 0
           /\ u.units[2].kind = 2 /\ u.units[2].length > 0
           /\ u.units[3].kind = 3 /\ u.units[3].length = 2

\* C7: Frame encode fails with InvalidFrame whenever chassis_id is absent,
\* port_id is absent or the TTL in whole seconds exceeds 65535, before any
\* TLV-level problem counts; when none of the three holds it fails with
\* InvalidTLV if an identifier payload exceeds 511 bytes or an optional TLV is
\* malformed; it never returns InsufficientData.
C7_EncodeErrors ==
    op = "FrameMarshalBinary" =>
        LET pre == f.ChassisID = <<>> \/ f.PortID = <<>> \/ WholeSeconds(f) > 65535
        IN  /\ pre => err = ErrInvalidFrame
            /\ ( /\ ~pre
                 /\ \/ 1 + Len(f.ChassisID[1].ID) > 511
                    \/ 1 + Len(f.PortID[1].ID) > 511
                    \/ \E i \in 1..Len(f.Optional) : ~ValidTLV(f.Optional[i]) )
               => err = ErrInvalidTLV
            /\ err # ErrUnexpectedEOF

\* C8: TTL is never wrapped on encode: whenever Frame encode succeeds the TTL in
\* whole seconds lies in 0..65535 and the two bytes emitted in the TTL TLV equal
\* it; a TTL of 65536 seconds or more, or a negative one, is rejected with
\* InvalidFrame.
C8_TTLNeverWrapped ==
    (op = "FrameMarshalBinary" /\ f.ChassisID # <<>> /\ f.PortID # <<>>)
    => LET s   == WholeSeconds(f)
           off == 3 + Len(f.ChassisID[1].ID) + 3 + Len(f.PortID[1].ID) + 2
       IN  /\ err = ErrNil => /\ s \in 0..65535
                              /\ buf[off + 1] * 256 + buf[off + 2] = s
           /\ s \notin 0..65535 => err = ErrInvalidFrame

\* C11: TLV round trip: for every TLV with kind <= 127, length <= 511 and
\* length = len(value), TLV decode of the output of TLV encode succeeds and
\* returns a TLV with the same kind, length and value.
C11_TLVRoundTrip ==
    (op = "TLVMarshalBinary" /\ ValidTLV(t))
    => /\ err = ErrNil
       /\ LET r == TLVUnmarshalBinary(NewTLV, buf)
          IN  /\ r.err = ErrNil
              /\ r.t.Type = t.Type
              /\ r.t.Length = t.Length
              /\ r.t.Value = t.Value

C11_Witness ==
    /\ op = "TLVMarshalBinary"
    /\ err = ErrNil
    /\ t.Type = 1
    /\ t.Length = 511
    /\ Len(t.Value) = 511
    /\ TLVUnmarshalBinary(NewTLV, buf).t = t

\* C12: a failed Frame decode leaves no partial frame behind: whenever a decode
\* call returns an error, the Frame's chassis_id, port_id, ttl and optional
\* fields are exactly what they were before that call.
C12_FailedDecodeKeepsFrame ==
    [][(op' = "FrameUnmarshalBinary" /\ err' # ErrNil) => f' = f]_vars

\* the sizes on the wire of the TLVs collected so far
RECURSIVE WireSize(_)
WireSize(units) ==
    IF units = <<>> THEN 0
    ELSE 2 + Len(Head(units).Value) + WireSize(Tail(units))

\* the offset is in bounds and is the size of what was collected; a loop that
\* ended without error stands at the end of the buffer; the loop never panics
ScanInBounds ==
    /\ 0 <= scanL
    /\ scanL <= Len(buf)
    /\ WireSize(scanTT) = scanL
    /\ op = "scanned" => (scanL = Len(buf) /\ WireSize(scanTT) = Len(buf))
    /\ op # "panic"

\* a successful unit decode moves the offset by 2 + the length in the low 9 bits
\* of the header word at the offset, and collects that unit
ScanAdvance ==
    (op = "scan" /\ op' = "scan" /\ scanTT' # scanTT)
    => /\ scanL' = scanL + 2 + ((buf[scanL + 1] * 256 + buf[scanL + 2]) % 512)
       /\ scanL' >= scanL + 2
       /\ Len(scanTT') = Len(scanTT) + 1
       /\ scanTT'[Len(scanTT')].Value = SubSeq(buf, scanL + 3, scanL')

\* C13: the TLV scan of Frame decode always terminates and stays in bounds: at
\* each iteration 0 <= offset <= len(b), every successful unit decode increases
\* the offset by 2 + length (at least 2), the loop ends either with an error or
\* with offset = len(b), and then the encoded sizes of the collected units sum
\* to len(b).
C13_ScanTerminatesInBounds ==
    /\ []ScanInBounds
    /\ [][ScanAdvance]_vars
    /\ <>(op = "scanError" \/ (op = "scanned" /\ scanL = Len(buf)))

\* a buffer of six or more units, the first with a value, scanned to its end
C13_Witness ==
    /\ op = "scanned"
    /\ err = ErrNil
    /\ Len(scanTT) >= 6
    /\ scanL = Len(buf)
    /\ scanTT[1].Length > 0

====
